---- MODULE Spec2Model ----
(***************************************************************************)
(* Quadrillion solver (src/main.cpp): the orientation generator            *)
(* solver::Initialize and the depth-first cell-filling search              *)
(* solver::Solve, as a state machine.                                      *)
(*                                                                         *)
(* The program is built with FAST = 1, so NDEBUG is defined (every assert  *)
(* is compiled out) and WITH_STATS is 0 (the three counters are never      *)
(* written).                                                               *)
(***************************************************************************)
EXTENDS Integers, Sequences, FiniteSets

(***************************************************************************)
(* Program constants.                                                      *)
(***************************************************************************)
FAST == 1
MAX_PIECE_SIZE == 4
MAX_BALLS == 5
NUM_ROTATIONS == 4

\* enum cell_value : u8
Empty == 0
Invalid == 1
Blocked == 2
Piece01 == 3

NDEBUG == (FAST # 0)

(***************************************************************************)
(* Bounds of the model.  The program has 12 pieces and a 16 x 16 board;    *)
(* the model keeps the code and scales these two sizes.                    *)
(***************************************************************************)
NUM_PIECES == 4
MAX_BOARD_SIZE == 4
\* number of text rows of an input board
NumInputRows == 2
\* largest ball count of the shapes of the orientation specification
MaxShapeBalls == 4

Piece12 == Piece01 + NUM_PIECES - 1

PieceIdxs == 0 .. NUM_PIECES - 1
GridIdxs == 0 .. MAX_PIECE_SIZE - 1
BoardIdxs == 0 .. MAX_BOARD_SIZE - 1

Pow2(n) == 2 ^ n

Min(S) == CHOOSE x \in S : \A y \in S : x <= y

(***************************************************************************)
(* Cell values and the board alphabet.                                     *)
(***************************************************************************)
IsPiece(CellValue) == CellValue >= Piece01 /\ CellValue <= Piece12

\* CellValue & 0b00001111
CellValueToPieceIndex(CellValue) == CellValue % 16

PieceIndexToCellValue(PieceIdx) == Piece01 + PieceIdx

\* the letters of the pieces, 'A' first: Letters[i + 1] is the char 'A' + i
Letters == <<"A", "B", "C", "D", "E", "F", "G", "H", "I", "J", "K", "L", "M", "N", "O", "P">>

LetterOffset(c) == CHOOSE i \in 0 .. Len(Letters) - 1 : Letters[i + 1] = c

CellValueToOutputChar(CellValue) ==
    CASE CellValue = Invalid -> " "
      [] CellValue = Empty -> "."
      [] CellValue = Blocked -> "*"
      [] IsPiece(CellValue) -> Letters[CellValueToPieceIndex(CellValue) + 1]
      [] OTHER -> "?"

InputCharToCellValue(InputChar) ==
    CASE InputChar = " " -> Invalid
      [] InputChar = "." -> Empty
      [] InputChar = "*" -> Blocked
      [] InputChar \in {Letters[i + 1] : i \in PieceIdxs} ->
             PieceIndexToCellValue(LetterOffset(InputChar))
      [] OTHER -> Invalid

(***************************************************************************)
(* Piece definitions: Balls[RowIdx][ColIdx] in {0, 1}.                     *)
(***************************************************************************)
\* the cells of the 4 x 4 grid in row-major order, from cell number k (0-based)
CellAt(k) == [RowIdx |-> k \div MAX_PIECE_SIZE, ColIdx |-> k % MAX_PIECE_SIZE]

\* rotate clockwise by 90 degrees: To[fromCol][(SIZE-1) - fromRow] = From[fromRow][fromCol]
Rotate_Transpose(From) ==
    [r \in GridIdxs |-> [c \in GridIdxs |-> From[c][r]]]

Rotate(From) ==
    [r \in GridIdxs |-> [c \in GridIdxs |-> From[(MAX_PIECE_SIZE - 1) - c][r]]]

\* flip vertically: To[(SIZE-1) - fromRow][fromCol] = From[fromRow][fromCol]
Flip_Identity(From) == From

Flip(From) ==
    [r \in GridIdxs |-> [c \in GridIdxs |-> From[(MAX_PIECE_SIZE - 1) - r][c]]]

\* the first row with a set bit (SIZE-1 when there is none)
MinRowIdxOf(Definition) ==
    Min({r \in GridIdxs : \E c \in GridIdxs : Definition[r][c] # 0}
        \cup {MAX_PIECE_SIZE - 1})

MinColIdxOf(Definition) ==
    Min({c \in GridIdxs : \E r \in GridIdxs : Definition[r][c] # 0}
        \cup {MAX_PIECE_SIZE - 1})

\* the in-place shift loop, cell by cell in row-major order from cell number k
RECURSIVE ShiftLoop(_, _, _, _)
ShiftLoop(Definition, MinRowIdx, MinColIdx, k) ==
    IF k >= MAX_PIECE_SIZE * MAX_PIECE_SIZE THEN Definition
    ELSE LET r == CellAt(k).RowIdx
             c == CellAt(k).ColIdx
         IN IF r >= MinRowIdx /\ c >= MinColIdx
            THEN ShiftLoop(
                     [Definition EXCEPT ![r - MinRowIdx][c - MinColIdx] = Definition[r][c]],
                     MinRowIdx, MinColIdx, k + 1)
            ELSE ShiftLoop(Definition, MinRowIdx, MinColIdx, k + 1)

\* clear remaining bits: rows from SIZE - MinRowIdx, columns from SIZE - MinColIdx
ClearRemaining_None(Definition, MinRowIdx, MinColIdx) == Definition

ClearRemaining(Definition, MinRowIdx, MinColIdx) ==
    [r \in GridIdxs |-> [c \in GridIdxs |->
        IF r >= MAX_PIECE_SIZE - MinRowIdx \/ c >= MAX_PIECE_SIZE - MinColIdx
        THEN 0 ELSE Definition[r][c]]]

PushUpAndLeft(Definition) ==
    LET MinRowIdx == MinRowIdxOf(Definition)
        MinColIdx == MinColIdxOf(Definition)
    IN ClearRemaining(ShiftLoop(Definition, MinRowIdx, MinColIdx, 0), MinRowIdx, MinColIdx)

\* Packed <<= 1; Packed |= Balls[RowIdx][ColIdx], over the cells in row-major order
\* (16 shifts of a u32: nothing is shifted out; the shifted value's low bit is 0)
RECURSIVE PackLoop(_, _, _)
PackLoop(Definition, Packed, k) ==
    IF k >= MAX_PIECE_SIZE * MAX_PIECE_SIZE THEN Packed
    ELSE PackLoop(Definition,
                  (Packed * 2) + Definition[CellAt(k).RowIdx][CellAt(k).ColIdx],
                  k + 1)

ComputePackedRepresentation(Definition) == PackLoop(Definition, 0, 0)

(***************************************************************************)
(* solver::Initialize, for one piece.                                      *)
(***************************************************************************)
\* the 8 raw variants: orientation 0 unchanged, 1..3 by repeated rotation,
\* orientation 4 is orientation 0 flipped, 5..7 by repeated rotation
RawOrientations(Piece) ==
    LET o0 == Piece
        o1 == Rotate(o0)
        o2 == Rotate(o1)
        o3 == Rotate(o2)
        o4 == Flip(o0)
        o5 == Rotate(o4)
        o6 == Rotate(o5)
        o7 == Rotate(o6)
    IN <<o0, o1, o2, o3, o4, o5, o6, o7>>

\* expanded_representation: the pushed definition and its packed representation
ExpandedOrientations(Piece) ==
    LET raw == RawOrientations(Piece)
    IN [i \in 1 .. 2 * NUM_ROTATIONS |->
           LET d == PushUpAndLeft(raw[i])
           IN [Definition |-> d, Packed |-> ComputePackedRepresentation(d)]]

\* is Orientation's packed value different from every kept one
IsOrientationUnique_LastOnly(Kept, Orientation) ==
    Len(Kept) = 0 \/ Kept[Len(Kept)].Packed # Orientation.Packed

IsOrientationUnique_Always(Kept, Orientation) == TRUE

IsOrientationUnique(Kept, Orientation) ==
    \A OtherOrientationIdx \in 1 .. Len(Kept) :
        Kept[OtherOrientationIdx].Packed # Orientation.Packed

\* the de-duplication loop over OrientationIdx (1-based here), Kept so far
RECURSIVE UniqueLoop(_, _, _)
UniqueLoop(All, Kept, OrientationIdx) ==
    IF OrientationIdx > Len(All) THEN Kept
    ELSE UniqueLoop(All,
                    IF IsOrientationUnique(Kept, All[OrientationIdx])
                    THEN Append(Kept, All[OrientationIdx])
                    ELSE Kept,
                    OrientationIdx + 1)

\* the row and column of each ball, scanning the grid in row-major order from cell k
RECURSIVE BallsLoop_Reverse(_, _, _)
BallsLoop_Reverse(Definition, Balls, k) ==
    IF k >= MAX_PIECE_SIZE * MAX_PIECE_SIZE THEN Balls
    ELSE BallsLoop_Reverse(Definition,
                           IF Definition[CellAt(k).RowIdx][CellAt(k).ColIdx] # 0
                           THEN <<CellAt(k)>> \o Balls
                           ELSE Balls,
                           k + 1)

RECURSIVE BallsLoop(_, _, _)
BallsLoop(Definition, Balls, k) ==
    IF k >= MAX_PIECE_SIZE * MAX_PIECE_SIZE THEN Balls
    ELSE BallsLoop(Definition,
                   IF Definition[CellAt(k).RowIdx][CellAt(k).ColIdx] # 0
                   THEN Append(Balls, CellAt(k))
                   ELSE Balls,
                   k + 1)

\* search_piece: Orientations (each a list of cell_ref), NumOrientations, NumBalls.
\* NumBalls is reset and recounted for every orientation: the last count stays.
InitializePiece(Piece) ==
    LET Intermediate == UniqueLoop(ExpandedOrientations(Piece), <<>>, 1)
        Orientations == [i \in 1 .. Len(Intermediate) |->
                             BallsLoop(Intermediate[i].Definition, <<>>, 0)]
    IN [Orientations |-> Orientations,
        NumOrientations |-> Len(Intermediate),
        NumBalls |-> Len(Orientations[Len(Orientations)])]

(***************************************************************************)
(* The inputs: piece definitions (pieces.txt) and board text (boards.txt). *)
(***************************************************************************)
\* the piece definition whose balls are the cells of S
GridOf(S) == [r \in GridIdxs |-> [c \in GridIdxs |-> IF <<r, c>> \in S THEN 1 ELSE 0]]

Monomino == GridOf({<<1, 1>>})
Domino == GridOf({<<0, 1>>, <<0, 2>>})
Tromino == GridOf({<<0, 0>>, <<1, 0>>, <<1, 1>>})

\* the inventories of the search: the first and the last piece are any of the
\* three shapes, the pieces between them are all monominoes or all dominoes
SearchInventories ==
    {[i \in PieceIdxs |-> IF i = 0 THEN First
                          ELSE IF i = NUM_PIECES - 1 THEN Last ELSE Middle] :
         First \in {Monomino, Domino, Tromino},
         Last \in {Monomino, Domino, Tromino},
         Middle \in {Monomino, Domino}}

\* every shape of 1 .. MaxShapeBalls balls (at most MAX_BALLS) in the 4 x 4 grid
AllShapes ==
    {GridOf({<<CellAt(k).RowIdx, CellAt(k).ColIdx>> : k \in K}) :
         K \in {K \in SUBSET (0 .. MAX_PIECE_SIZE * MAX_PIECE_SIZE - 1) :
                    /\ Cardinality(K) >= 1
                    /\ Cardinality(K) <= MaxShapeBalls
                    /\ Cardinality(K) <= MAX_BALLS}}

\* the text rows a board is made of
RowPatterns ==
    { <<".", ".", ".">>,
      <<" ", ".", ".", "*">>,
      <<"A", ".", ".">>,
      [i \in 1 .. NUM_PIECES |-> Letters[i]] }

InputTexts == [1 .. NumInputRows -> RowPatterns]

\* main: SetCells(InputBoard, Invalid), then one cell per character read
ReadBoard(Rows) ==
    [r \in BoardIdxs |-> [c \in BoardIdxs |->
        IF r < Len(Rows) /\ c < Len(Rows[r + 1])
        THEN InputCharToCellValue(Rows[r + 1][c + 1])
        ELSE Invalid]]

\* main: pre-compute the board size
ComputeNumRows(Board) ==
    IF \E r, c \in BoardIdxs : Board[r][c] # Invalid
    THEN 1 + (CHOOSE r \in BoardIdxs :
                  /\ \E c \in BoardIdxs : Board[r][c] # Invalid
                  /\ \A r2 \in BoardIdxs : (\E c \in BoardIdxs : Board[r2][c] # Invalid) => r2 <= r)
    ELSE 0

ComputeNumCols(Board) ==
    IF \E r, c \in BoardIdxs : Board[r][c] # Invalid
    THEN 1 + (CHOOSE c \in BoardIdxs :
                  /\ \E r \in BoardIdxs : Board[r][c] # Invalid
                  /\ \A c2 \in BoardIdxs : (\E r \in BoardIdxs : Board[r][c2] # Invalid) => c2 <= c)
    ELSE 0

(***************************************************************************)
(* solver::Solve: the helpers.                                             *)
(***************************************************************************)
\* u16 RemainingPieceBitFlags : NUM_PIECES
AllPieceBitFlags == Pow2(NUM_PIECES) - 1

BitIsSet(Flags, PieceIdx) == (Flags \div Pow2(PieceIdx)) % 2 = 1

\* Flags &= ~(1u << PieceIdx), stored back into the NUM_PIECES-bit field
ClearBit_Keep(Flags, PieceIdx) == Flags

ClearBit(Flags, PieceIdx) ==
    (IF BitIsSet(Flags, PieceIdx) THEN Flags - Pow2(PieceIdx) ELSE Flags) % Pow2(NUM_PIECES)

\* pre-compute the empty cells, row-major over the whole MAX_BOARD_SIZE grid, from cell k
RECURSIVE EmptyCellsLoop(_, _, _)
EmptyCellsLoop(Board, Cells, k) ==
    IF k >= MAX_BOARD_SIZE * MAX_BOARD_SIZE THEN Cells
    ELSE LET r == k \div MAX_BOARD_SIZE
             c == k % MAX_BOARD_SIZE
         IN EmptyCellsLoop(Board,
                           IF Board[r][c] = Empty
                           THEN Append(Cells, [RowIdx |-> r, ColIdx |-> c])
                           ELSE Cells,
                           k + 1)

\* clear the flag of every piece found in [0, Rows) x [0, Cols), from cell k
RECURSIVE PreplacedLoop(_, _, _, _, _)
PreplacedLoop(Board, Rows, Cols, Flags, k) ==
    IF k >= Rows * Cols THEN Flags
    ELSE LET CellValue == Board[k \div Cols][k % Cols]
         IN PreplacedLoop(Board, Rows, Cols,
                          IF IsPiece(CellValue)
                          THEN ClearBit(Flags, CellValueToPieceIndex(CellValue))
                          ELSE Flags,
                          k + 1)

InitialSearchStateOf(Board, Rows, Cols) ==
    [Board |-> Board,
     RemainingPieceBitFlags |-> PreplacedLoop(Board, Rows, Cols, AllPieceBitFlags, 0),
     EmptyCellIdx |-> 0]

\* find the next empty cell on the board: the scan from index Idx (0-based)
RECURSIVE ScanLoop(_, _, _)
ScanLoop(Board, EmptyCells, Idx) ==
    IF Idx >= Len(EmptyCells) THEN Idx
    ELSE IF Board[EmptyCells[Idx + 1].RowIdx][EmptyCells[Idx + 1].ColIdx] = Empty
         THEN Idx
         ELSE ScanLoop(Board, EmptyCells, Idx + 1)

\* determine which pieces are available, in increasing PieceIdx
RemainingPieceIdxsOf_All(Flags) == [i \in 1 .. NUM_PIECES |-> i - 1]

RemainingPieceIdxsOf(Flags) ==
    SelectSeq([i \in 1 .. NUM_PIECES |-> i - 1], LAMBDA PieceIdx : BitIsSet(Flags, PieceIdx))

\* the board cell of ball BallIdx when ball PlacedBallIdx lies on (Row, Col)
BallCell(Orientation, PlacedBallIdx, BallIdx, Row, Col) ==
    [RowIdx |-> Row - Orientation[PlacedBallIdx + 1].RowIdx + Orientation[BallIdx + 1].RowIdx,
     ColIdx |-> Col - Orientation[PlacedBallIdx + 1].ColIdx + Orientation[BallIdx + 1].ColIdx]

CanPlace_InRange(Board, Rows, Cols, Orientation, NumBalls, PlacedBallIdx, Row, Col) ==
    \A TestBallIdx \in 0 .. NumBalls - 1 :
        LET b == [RowIdx |-> Row - Orientation[PlacedBallIdx + 1].RowIdx
                                 + Orientation[TestBallIdx + 1].RowIdx,
                  ColIdx |-> Col - Orientation[PlacedBallIdx + 1].ColIdx
                                 + Orientation[TestBallIdx + 1].ColIdx]
        IN b.RowIdx >= 0 /\ b.RowIdx < Rows /\ b.ColIdx >= 0 /\ b.ColIdx < Cols

CanPlace(Board, Rows, Cols, Orientation, NumBalls, PlacedBallIdx, Row, Col) ==
    \A TestBallIdx \in 0 .. NumBalls - 1 :
        LET b == BallCell(Orientation, PlacedBallIdx, TestBallIdx, Row, Col)
        IN /\ b.RowIdx >= 0 /\ b.RowIdx < Rows /\ b.ColIdx >= 0 /\ b.ColIdx < Cols
           /\ Board[b.RowIdx][b.ColIdx] = Empty

\* the board with every ball's cell set to NewCellValue
PlaceOn(Board, Orientation, NumBalls, PlacedBallIdx, Row, Col, NewCellValue) ==
    LET cells == {<<BallCell(Orientation, PlacedBallIdx, i, Row, Col).RowIdx,
                    BallCell(Orientation, PlacedBallIdx, i, Row, Col).ColIdx>> :
                      i \in 0 .. NumBalls - 1}
    IN [r \in BoardIdxs |-> [c \in BoardIdxs |->
           IF <<r, c>> \in cells THEN NewCellValue ELSE Board[r][c]]]

\* NewSearchState.EmptyCellIdx++ on the u8 copy of the popped state's index
NextEmptyCellIdx_Two(Idx) == (Idx + 2) % 256

NextEmptyCellIdx(Idx) == (Idx + 1) % 256

\* concatenation of the sequences of a sequence
RECURSIVE Flatten_Reverse(_)
Flatten_Reverse(ss) == IF Len(ss) = 0 THEN <<>> ELSE Flatten_Reverse(Tail(ss)) \o Head(ss)

RECURSIVE Flatten(_)
Flatten(ss) == IF Len(ss) = 0 THEN <<>> ELSE Head(ss) \o Flatten(Tail(ss))

\* every (piece, orientation, ball) attempt of one iteration, in loop order
AttemptsOf(Pcs, Flags) ==
    LET rem == RemainingPieceIdxsOf(Flags)
    IN Flatten([n \in 1 .. Len(rem) |->
           Flatten([o \in 1 .. Pcs[rem[n]].NumOrientations |->
               [b \in 1 .. Pcs[rem[n]].NumBalls |->
                   [PieceIdx |-> rem[n], OrientationIdx |-> o - 1, PlacedBallIdx |-> b - 1]]])])

\* the attempts that can be placed, each with the new search state it makes
PlacementsOf(Pcs, State, Rows, Cols, Row, Col) ==
    LET ok == SelectSeq(AttemptsOf(Pcs, State.RemainingPieceBitFlags),
                  LAMBDA a : CanPlace(State.Board, Rows, Cols,
                                      Pcs[a.PieceIdx].Orientations[a.OrientationIdx + 1],
                                      Pcs[a.PieceIdx].NumBalls, a.PlacedBallIdx, Row, Col))
    IN [n \in 1 .. Len(ok) |->
           [PieceIdx |-> ok[n].PieceIdx,
            OrientationIdx |-> ok[n].OrientationIdx,
            PlacedBallIdx |-> ok[n].PlacedBallIdx,
            NewSearchState |->
                [Board |-> PlaceOn(State.Board,
                                   Pcs[ok[n].PieceIdx].Orientations[ok[n].OrientationIdx + 1],
                                   Pcs[ok[n].PieceIdx].NumBalls, ok[n].PlacedBallIdx, Row, Col,
                                   PieceIndexToCellValue(ok[n].PieceIdx)),
                 RemainingPieceBitFlags |->
                     ClearBit(State.RemainingPieceBitFlags, ok[n].PieceIdx),
                 EmptyCellIdx |-> NextEmptyCellIdx(State.EmptyCellIdx)]]]

\* RowIdx and ColIdx are not initialized when the scan finds no empty cell: any value
UninitializedValues == {-1, 0}

(***************************************************************************)
(* The state machine.                                                      *)
(***************************************************************************)
VARIABLES
    pc,                    \* "start", "ready" (Initialize done), "loop", "done", "aborted"
    Pieces,                \* PieceDefinitions
    InputBoard, NumRows, NumCols,
    SearchPieces,          \* solver::SearchPieces
    InputBoardEmptyCells,
    SearchStates,          \* the stack, its back last
    OutSolutions,
    SearchState,           \* the state popped by the running iteration
    EmptyCellIdx,          \* the index the scan of that iteration stopped at (-1: none yet)
    Placements             \* the placements that iteration made, in order

vars == <<pc, Pieces, InputBoard, NumRows, NumCols, SearchPieces, InputBoardEmptyCells,
          SearchStates, OutSolutions, SearchState, EmptyCellIdx, Placements>>

InitWith(P, Board) ==
    /\ pc = "start"
    /\ Pieces = P
    /\ InputBoard = Board
    /\ NumRows = ComputeNumRows(Board)
    /\ NumCols = ComputeNumCols(Board)
    /\ SearchPieces = <<>>
    /\ InputBoardEmptyCells = <<>>
    /\ SearchStates = <<>>
    /\ OutSolutions = <<>>
    /\ SearchState = [Board |-> Board, RemainingPieceBitFlags |-> 0, EmptyCellIdx |-> 0]
    /\ EmptyCellIdx = -1
    /\ Placements = <<>>

Init == \E P \in SearchInventories, T \in InputTexts : InitWith(P, ReadBoard(T))

\* Solver.Initialize(PieceDefinitions)
Initialize ==
    /\ pc = "start"
    /\ SearchPieces' = [PieceIdx \in PieceIdxs |-> InitializePiece(Pieces[PieceIdx])]
    /\ pc' = "ready"
    /\ UNCHANGED <<Pieces, InputBoard, NumRows, NumCols, InputBoardEmptyCells,
                   SearchStates, OutSolutions, SearchState, EmptyCellIdx, Placements>>

\* Solve, up to the loop: the empty cells, the initial search state, the first push
SolveBegin ==
    /\ pc = "ready"
    /\ InputBoardEmptyCells' = EmptyCellsLoop(InputBoard, <<>>, 0)
    /\ OutSolutions' = <<>>
    /\ SearchStates' = <<InitialSearchStateOf(InputBoard, NumRows, NumCols)>>
    /\ pc' = "loop"
    /\ UNCHANGED <<Pieces, InputBoard, NumRows, NumCols, SearchPieces,
                   SearchState, EmptyCellIdx, Placements>>

\* one iteration of while (!SearchStates.empty())
SolveIteration ==
    /\ pc = "loop"
    /\ SearchStates # <<>>
    /\ \E State \in {SearchStates[Len(SearchStates)]} :
       \E Idx \in {ScanLoop(State.Board, InputBoardEmptyCells, State.EmptyCellIdx)} :
          LET Popped == SubSeq(SearchStates, 1, Len(SearchStates) - 1)
              Found == Idx < Len(InputBoardEmptyCells)
              IsLastPiece == Len(RemainingPieceIdxsOf(State.RemainingPieceBitFlags)) = 1
          IN /\ SearchState' = State
             /\ EmptyCellIdx' = Idx
             /\ IF ~NDEBUG /\ ~Found
                THEN \* assert(EmptyCellIdx < InputBoardNumEmptyCells) fails
                     /\ pc' = "aborted"
                     /\ SearchStates' = Popped
                     /\ UNCHANGED <<OutSolutions, Placements>>
                ELSE \E Row \in IF Found THEN {InputBoardEmptyCells[Idx + 1].RowIdx}
                                         ELSE UninitializedValues,
                        Col \in IF Found THEN {InputBoardEmptyCells[Idx + 1].ColIdx}
                                         ELSE UninitializedValues :
                     \E Made \in {PlacementsOf(SearchPieces, State, NumRows, NumCols, Row, Col)} :
                         /\ Placements' = Made
                         /\ pc' = "loop"
                         /\ IF IsLastPiece
                            THEN \* OutSolutions.push_back(NewSearchState.Board)
                                 /\ SearchStates' = Popped
                                 /\ OutSolutions' = OutSolutions \o
                                        [n \in 1 .. Len(Made) |-> Made[n].NewSearchState.Board]
                            ELSE \* SearchStates.push_back(NewSearchState)
                                 /\ SearchStates' = Popped \o
                                        [n \in 1 .. Len(Made) |-> Made[n].NewSearchState]
                                 /\ UNCHANGED OutSolutions
    /\ UNCHANGED <<Pieces, InputBoard, NumRows, NumCols, SearchPieces, InputBoardEmptyCells>>

\* the stack is empty: Solve returns
SolveReturn ==
    /\ pc = "loop"
    /\ SearchStates = <<>>
    /\ pc' = "done"
    /\ UNCHANGED <<Pieces, InputBoard, NumRows, NumCols, SearchPieces, InputBoardEmptyCells,
                   SearchStates, OutSolutions, SearchState, EmptyCellIdx, Placements>>

Next == Initialize \/ SolveBegin \/ SolveIteration \/ SolveReturn

Spec == Init /\ [][Next]_vars

(***************************************************************************)
(* The orientation generator alone: Initialize on every shape of at most   *)
(* MaxShapeBalls balls (piece 0; the other pieces are single balls).       *)
(***************************************************************************)
OrientInit ==
    \E Shape \in AllShapes :
        InitWith([i \in PieceIdxs |-> IF i = 0 THEN Shape ELSE Monomino],
                 ReadBoard([i \in 1 .. NumInputRows |-> <<".", ".", ".">>]))

OrientNext == Initialize

OrientSpec == OrientInit /\ [][OrientNext]_vars

(***************************************************************************)
(* Vocabulary of the properties.                                           *)
(***************************************************************************)
\* the cells of a piece definition, as a set of <<row, column>>
BallSet(Piece) == {<<r, c>> \in GridIdxs \X GridIdxs : Piece[r][c] # 0}

\* a set of cells translated so that its least row and least column are 0
NormalizeSet(S) ==
    IF S = {} THEN {}
    ELSE LET mr == Min({p[1] : p \in S})
             mc == Min({p[2] : p \in S})
         IN {<<p[1] - mr, p[2] - mc>> : p \in S}

\* a quarter turn clockwise and a vertical flip, on sets of cells
RotateSet(S) == NormalizeSet({<<p[2], 0 - p[1]>> : p \in S})
FlipSet(S) == NormalizeSet({<<0 - p[1], p[2]>> : p \in S})

\* the 8 images of a shape under the rotations and reflections of the square, in
\* the order: the shape, its 3 successive turns, its flip, the flip's 3 turns
Images(S) ==
    LET a0 == NormalizeSet(S)
        a1 == RotateSet(a0)
        a2 == RotateSet(a1)
        f0 == FlipSet(S)
        f1 == RotateSet(f0)
        f2 == RotateSet(f1)
    IN <<a0, a1, a2, RotateSet(a2), f0, f1, f2, RotateSet(f2)>>

FullySymmetric(S) == LET img == Images(S) IN \A k \in 2 .. 8 : img[k] = img[1]
NoSymmetry(S) == LET img == Images(S) IN \A k \in 2 .. 8 : img[k] # img[1]

\* a sequence with every element removed that equals an earlier one
FirstOccurrences(seq) ==
    LET keep == {k \in 1 .. Len(seq) : \A j \in 1 .. k - 1 : seq[j] # seq[k]}
        rank(k) == Cardinality({j \in keep : j <= k})
    IN [n \in 1 .. Cardinality(keep) |-> CHOOSE k \in keep : rank(k) = n]

DedupFirst(seq) == LET first == FirstOccurrences(seq) IN [n \in 1 .. Len(first) |-> seq[first[n]]]

\* the cells of a generated orientation (a list of cell_ref)
OrientationCells(Orientation) ==
    {<<Orientation[b].RowIdx, Orientation[b].ColIdx>> : b \in 1 .. Len(Orientation)}

\* the generated orientations of piece i, each as its set of cells
OrientationSets(i) ==
    [o \in 1 .. SearchPieces[i].NumOrientations |->
        OrientationCells(SearchPieces[i].Orientations[o])]

\* the pieces a remaining-piece bit field holds
RemainingSet(Flags) == {i \in PieceIdxs : BitIsSet(Flags, i)}

\* the pieces that appear on a board: some cell holds PieceIndexToCellValue(i)
PiecesOn(Board) ==
    {i \in PieceIdxs : \E r, c \in BoardIdxs : Board[r][c] = PieceIndexToCellValue(i)}

\* the distinct piece identifiers on a board
IdentifiersOn(Board) == {Board[r][c] : r, c \in BoardIdxs} \cap (Piece01 .. Piece12)

EmptyCellsOf(Board) == {<<r, c>> \in BoardIdxs \X BoardIdxs : Board[r][c] = Empty}

\* the sum of the ball counts of the pieces of S
RECURSIVE BallSum(_)
BallSum(S) ==
    IF S = {} THEN 0
    ELSE LET i == Min(S) IN Len(SearchPieces[i].Orientations[1]) + BallSum(S \ {i})

\* every board made from Board by putting piece i on Empty cells inside the
\* logical extents, in one of its orientations at some translation
BoardsWithPiece(Board, i) ==
    {[r \in BoardIdxs |-> [c \in BoardIdxs |->
          IF <<r - t[2], c - t[3]>> \in OrientationSets(i)[t[1]]
          THEN PieceIndexToCellValue(i) ELSE Board[r][c]]] :
        t \in {t \in (1 .. SearchPieces[i].NumOrientations)
                       \X (0 .. NumRows - 1) \X (0 .. NumCols - 1) :
                   \A p \in OrientationSets(i)[t[1]] :
                       /\ p[1] + t[2] < NumRows
                       /\ p[2] + t[3] < NumCols
                       /\ Board[p[1] + t[2]][p[2] + t[3]] = Empty}}

\* brute force: the pieces of ToPlace put one after the other, each exactly once,
\* without overlap, so that no Empty cell is left
RECURSIVE BruteForce(_, _)
BruteForce(Board, ToPlace) ==
    IF ToPlace = {}
    THEN IF EmptyCellsOf(Board) = {} THEN {Board} ELSE {}
    ELSE LET i == Min(ToPlace)
         IN UNION {BruteForce(B, ToPlace \ {i}) : B \in BoardsWithPiece(Board, i)}

SolutionSet == {OutSolutions[n] : n \in 1 .. Len(OutSolutions)}

\* an iteration of the loop has run: SearchState, EmptyCellIdx and Placements are its
Iterated == EmptyCellIdx >= 0

(***************************************************************************)
(* Solve against brute force and the shape of its solutions.               *)
(***************************************************************************)
\* C1: when Solve has returned, the set of boards it returned is the set brute
\* force finds: every piece that is not pre-placed on the input board put exactly
\* once, on Empty cells inside the extents, without overlap, covering every Empty cell.
C1_SolveEqualsBruteForce ==
    pc = "done" => SolutionSet = BruteForce(InputBoard, PieceIdxs \ PiecesOn(InputBoard))

\* C2: no board in the solution sequence has an Empty cell inside the logical extents.
C2_NoEmptyCellInSolution ==
    \A n \in 1 .. Len(OutSolutions) :
        \A r \in 0 .. NumRows - 1, c \in 0 .. NumCols - 1 : OutSolutions[n][r][c] # Empty

\* the cells of Board that carry the identifier of piece i
CellsOfPiece(Board, i) ==
    {<<r, c>> \in BoardIdxs \X BoardIdxs : Board[r][c] = PieceIndexToCellValue(i)}

\* C3: in every returned board each input Empty cell carries a piece identifier,
\* the cells of every piece placed by the search are a translation of one of its
\* generated orientations, and the placed pieces' ball counts sum to the number
\* of Empty cells of the input board.
C3_NoOverlap ==
    \A n \in 1 .. Len(OutSolutions) :
        LET B == OutSolutions[n]
            Placed == {i \in PieceIdxs : CellsOfPiece(B, i) # CellsOfPiece(InputBoard, i)}
        IN /\ \A p \in EmptyCellsOf(InputBoard) : IsPiece(B[p[1]][p[2]])
           /\ \A i \in Placed :
                  \E o \in 1 .. SearchPieces[i].NumOrientations :
                      NormalizeSet(CellsOfPiece(B, i)) = OrientationSets(i)[o]
           /\ BallSum(Placed) = Cardinality(EmptyCellsOf(InputBoard))

\* C4: the remaining-piece set of the initial search state (the one SolveBegin
\* pushes) is all pieces minus the pieces pre-placed on the input board.
C4_InitialRemaining ==
    (pc = "loop" /\ ~Iterated) =>
        RemainingSet(SearchStates[1].RemainingPieceBitFlags) = PieceIdxs \ PiecesOn(InputBoard)

\* the search states in existence: on the stack, popped, or just made
\* (the states behind the recorded solutions are among the last)
SearchStatesCreated ==
    {SearchStates[n] : n \in 1 .. Len(SearchStates)}
        \cup (IF Iterated THEN {SearchState} ELSE {})
        \cup {Placements[n].NewSearchState : n \in 1 .. Len(Placements)}

\* C5: in every search state the number of remaining pieces is NUM_PIECES minus
\* the number of distinct piece identifiers on its board.
C5_RemainingCount ==
    \A s \in SearchStatesCreated :
        Cardinality(RemainingSet(s.RemainingPieceBitFlags))
            = NUM_PIECES - Cardinality(IdentifiersOn(s.Board))

\* C6: an input board with no Empty cell and every piece on it has exactly one
\* solution, the input board itself.
C6_AllPlacedOneSolution ==
    (pc = "done" /\ EmptyCellsOf(InputBoard) = {} /\ PiecesOn(InputBoard) = PieceIdxs)
        => OutSolutions = <<InputBoard>>

\* every new search state of the last iteration has fewer remaining pieces than
\* the state it was derived from
FewerRemaining ==
    \A n \in 1 .. Len(Placements) :
        Cardinality(RemainingSet(Placements[n].NewSearchState.RemainingPieceBitFlags))
            < Cardinality(RemainingSet(SearchState.RemainingPieceBitFlags))

\* how many states of the stack have k remaining pieces, for every k
StackCounts ==
    [k \in 0 .. NUM_PIECES |->
        Cardinality({n \in 1 .. Len(SearchStates) :
            Cardinality(RemainingSet(SearchStates[n].RemainingPieceBitFlags)) = k})]

\* a is below b in the lexicographic order that compares the largest k first
\* (a well-founded order: no sequence of stacks descends in it forever)
LexLess(a, b) ==
    \E k \in 0 .. NUM_PIECES : a[k] < b[k] /\ \A j \in k + 1 .. NUM_PIECES : a[j] = b[j]

\* C7: Solve terminates.  Every iteration replaces the popped state by states with
\* strictly fewer remaining pieces, so the stack descends in a well-founded
\* order and empties after finitely many iterations; with the stack empty the
\* loop exits.
C7_Terminates ==
    [][/\ (pc = "loop" /\ SearchStates # <<>>) =>
              /\ pc' = "loop"
              /\ FewerRemaining'
              /\ LexLess(StackCounts', StackCounts)
       /\ (pc = "loop" /\ SearchStates = <<>>) => pc' = "done"]_vars

C7_Witness ==
    /\ pc = "done"
    /\ OutSolutions # <<>>
    /\ Len(Placements) >= 1

\* C8: an iteration whose scan finds no Empty cell at or after the fill-cursor
\* while pieces remain aborts: it attempts no placement and the search stops.
C8_FailFast ==
    (Iterated /\ EmptyCellIdx >= Len(InputBoardEmptyCells)
              /\ SearchState.RemainingPieceBitFlags # 0)
        => pc = "aborted"

(***************************************************************************)
(* The orientation generator.                                              *)
(***************************************************************************)
\* C9: a piece with at least one ball gets between 1 and 8 orientations, exactly 1
\* when every rotation and reflection leaves its normalized shape unchanged,
\* exactly 8 when none does.
C9_OrientationCount ==
    pc = "ready" =>
        \A i \in PieceIdxs :
            LET S == BallSet(Pieces[i])
                n == SearchPieces[i].NumOrientations
            IN S # {} =>
                  /\ n >= 1 /\ n <= 8
                  /\ n = Len(SearchPieces[i].Orientations)
                  /\ FullySymmetric(S) => n = 1
                  /\ NoSymmetry(S) => n = 8

C9_Witness ==
    /\ pc = "ready"
    /\ NoSymmetry(BallSet(Pieces[0])) /\ SearchPieces[0].NumOrientations = 8
    /\ FullySymmetric(BallSet(Pieces[1])) /\ SearchPieces[1].NumOrientations = 1

\* C10: the orientations of a piece are its 8 normalized variants in generation
\* order with every variant removed that equals an earlier one: they are pairwise
\* different, every variant is one of them, the first is the normalized shape.
C10_DedupInGenerationOrder ==
    pc = "ready" =>
        \A i \in PieceIdxs :
            LET Variants == Images(BallSet(Pieces[i]))
                Kept == OrientationSets(i)
            IN /\ Kept = DedupFirst(Variants)
               /\ \A a, b \in 1 .. Len(Kept) : a # b => Kept[a] # Kept[b]
               /\ \A k \in 1 .. 8 : \E a \in 1 .. Len(Kept) : Kept[a] = Variants[k]
               /\ Kept[1] = NormalizeSet(BallSet(Pieces[i]))

\* a piece whose variants repeat out of order: a kept orientation comes back later
C10_Witness ==
    /\ pc = "ready"
    /\ SearchPieces[0].NumOrientations = 4
    /\ \E k \in 3 .. 8 : /\ Images(BallSet(Pieces[0]))[k] = OrientationSets(0)[1]
                         /\ Images(BallSet(Pieces[0]))[k - 1] # OrientationSets(0)[1]

\* C11: the orientations generated for a piece are closed under the transforms: a
\* generated orientation turned a quarter clockwise, or flipped vertically, and
\* normalized again is the cell set of a generated orientation of that piece.
C11_ClosedUnderTransforms ==
    pc = "ready" =>
        \A i \in PieceIdxs :
            LET Kept == OrientationSets(i)
                Generated == {Kept[o] : o \in 1 .. Len(Kept)}
            IN \A o \in 1 .. Len(Kept) :
                   /\ RotateSet(Kept[o]) \in Generated
                   /\ FlipSet(Kept[o]) \in Generated

\* a piece with an orientation that both transforms move, to two other orientations
C11_Witness ==
    /\ pc = "ready"
    /\ \E o \in 1 .. SearchPieces[0].NumOrientations :
           LET S == OrientationSets(0)[o]
           IN /\ RotateSet(S) # S
              /\ FlipSet(S) # S
              /\ FlipSet(S) # RotateSet(S)
              /\ \E a, b \in 1 .. SearchPieces[0].NumOrientations :
                     /\ a # o /\ b # o /\ a # b
                     /\ OrientationSets(0)[a] = RotateSet(S)
                     /\ OrientationSets(0)[b] = FlipSet(S)

\* C12: PushUpAndLeft is idempotent on every non-empty shape it is given (the 8
\* raw variants of every piece): the result has a ball in row 0 and a ball in
\* column 0, the same number of balls in the same relative positions as the input
\* (its ball set is the input's, translated to row 0 and column 0), and
\* PushUpAndLeft leaves the result unchanged.
C12_PushUpAndLeftIdempotent ==
    pc = "ready" =>
        \A Piece \in {Pieces[i] : i \in PieceIdxs} :
        \A From \in {RawOrientations(Piece)[k] : k \in 1 .. 2 * NUM_ROTATIONS} :
        \A To \in {PushUpAndLeft(From)} :
            BallSet(From) # {} =>
                /\ \E c \in GridIdxs : To[0][c] # 0
                /\ \E r \in GridIdxs : To[r][0] # 0
                /\ Cardinality(BallSet(To)) = Cardinality(BallSet(From))
                /\ BallSet(To) = NormalizeSet(BallSet(From))
                /\ PushUpAndLeft(To) = To

\* a shape away from the top and from the left edge: PushUpAndLeft moves it both ways
C12_Witness ==
    /\ pc = "ready"
    /\ MinRowIdxOf(Pieces[0]) > 0
    /\ MinColIdxOf(Pieces[0]) > 0
    /\ Cardinality(BallSet(Pieces[0])) >= 3
    /\ PushUpAndLeft(Pieces[0]) # Pieces[0]
    /\ SearchPieces[0].Orientations[1] = BallsLoop(PushUpAndLeft(Pieces[0]), <<>>, 0)

(***************************************************************************)
(* The board alphabet.                                                     *)
(***************************************************************************)
\* the characters of a board text
InputChars == {" ", ".", "*"} \cup {Letters[i + 1] : i \in PieceIdxs}

\* C13: board input and board output use the same alphabet: every cell of the
\* input board is written back as the character it was read from, and the piece
\* index of the cell value of piece i is i.
C13_AlphabetRoundTrip ==
    /\ \A r, c \in BoardIdxs : \A ch \in InputChars :
           InputCharToCellValue(ch) = InputBoard[r][c]
               => CellValueToOutputChar(InputBoard[r][c]) = ch
    /\ \A i \in PiecesOn(InputBoard) : CellValueToPieceIndex(PieceIndexToCellValue(i)) = i

(***************************************************************************)
(* The iterations of the search.                                           *)
(***************************************************************************)
\* the scan of the running iteration found an Empty cell: the target cell
Found == Iterated /\ EmptyCellIdx < Len(InputBoardEmptyCells)

TargetCell == InputBoardEmptyCells[EmptyCellIdx + 1]

\* C14: in every popped state the cells of the empty-cell list below the
\* fill-cursor are non-Empty on the state's board, the target cell the scan finds
\* is the first Empty cell of the board in row-major order, and the cells above
\* and to the left of the target cell are not Empty.
C14_CellsBelowCursorFilled ==
    Iterated =>
        /\ \A n \in 1 .. Len(InputBoardEmptyCells) :
               n - 1 < SearchState.EmptyCellIdx =>
                   SearchState.Board[InputBoardEmptyCells[n].RowIdx]
                                    [InputBoardEmptyCells[n].ColIdx] # Empty
        /\ Found =>
               /\ SearchState.Board[TargetCell.RowIdx][TargetCell.ColIdx] = Empty
               /\ \A r, c \in BoardIdxs :
                      (r < TargetCell.RowIdx \/ (r = TargetCell.RowIdx /\ c < TargetCell.ColIdx))
                          => SearchState.Board[r][c] # Empty
               /\ TargetCell.RowIdx > 0 =>
                      SearchState.Board[TargetCell.RowIdx - 1][TargetCell.ColIdx] # Empty
               /\ TargetCell.ColIdx > 0 =>
                      SearchState.Board[TargetCell.RowIdx][TargetCell.ColIdx - 1] # Empty

\* a popped state with a cursor above 0, whose scan went past the cursor to a
\* target cell that has a cell above it and a cell to its left
C14_Witness ==
    /\ Found
    /\ SearchState.EmptyCellIdx >= 1
    /\ EmptyCellIdx > SearchState.EmptyCellIdx
    /\ TargetCell.RowIdx > 0
    /\ TargetCell.ColIdx > 0
    /\ InputBoard[TargetCell.RowIdx - 1][TargetCell.ColIdx] = Empty
    /\ InputBoard[TargetCell.RowIdx][TargetCell.ColIdx - 1] = Empty

\* C15: the fill-cursor of a new child state is k + 1, for k the index of the
\* empty-cell list at which the iteration found its target cell.
C15_CursorPastTarget ==
    Found => \A n \in 1 .. Len(Placements) :
                 Placements[n].NewSearchState.EmptyCellIdx = EmptyCellIdx + 1

\* the new search states of a list of placements whose remaining set is empty
\* (WithNone) or not empty (~WithNone), in order
ChildrenOf(Made, WithNone) ==
    SelectSeq([n \in 1 .. Len(Made) |-> Made[n].NewSearchState],
              LAMBDA s : (RemainingSet(s.RemainingPieceBitFlags) = {}) = WithNone)

BoardsOf(States) == [n \in 1 .. Len(States) |-> States[n].Board]

\* C16: in every iteration, the child states with an empty remaining set are the
\* ones recorded as solutions and the child states with a non-empty remaining
\* set are the ones pushed; the remaining set of a child is its parent's minus
\* exactly the placed piece, which the parent held.
C16_RecordedIffNoneRemaining ==
    [][(pc = "loop" /\ SearchStates # <<>>) =>
           /\ OutSolutions' = OutSolutions \o BoardsOf(ChildrenOf(Placements', TRUE))
           /\ SearchStates' = SubSeq(SearchStates, 1, Len(SearchStates) - 1)
                                  \o ChildrenOf(Placements', FALSE)
           /\ \A n \in 1 .. Len(Placements') :
                  /\ Placements'[n].PieceIdx
                         \in RemainingSet(SearchState'.RemainingPieceBitFlags)
                  /\ RemainingSet(Placements'[n].NewSearchState.RemainingPieceBitFlags)
                         = RemainingSet(SearchState'.RemainingPieceBitFlags)
                               \ {Placements'[n].PieceIdx}]_vars

\* an iteration that recorded solutions, while states pushed by earlier
\* iterations wait on the stack
C16_Witness ==
    /\ Iterated
    /\ Len(Placements) >= 1
    /\ \A n \in 1 .. Len(Placements) :
           RemainingSet(Placements[n].NewSearchState.RemainingPieceBitFlags) = {}
    /\ Len(OutSolutions) >= Len(Placements)
    /\ Len(SearchStates) >= 2
    /\ \A n \in 1 .. Len(SearchStates) :
           RemainingSet(SearchStates[n].RemainingPieceBitFlags) # {}

\* the board cells of the balls of a placement whose anchor ball lies on Target
PlacedCells(Placement, Target) ==
    LET Orientation == SearchPieces[Placement.PieceIdx]
                           .Orientations[Placement.OrientationIdx + 1]
        Anchor == Orientation[Placement.PlacedBallIdx + 1]
    IN {<<Target.RowIdx - Anchor.RowIdx + Orientation[b].RowIdx,
          Target.ColIdx - Anchor.ColIdx + Orientation[b].ColIdx>> :
            b \in 1 .. Len(Orientation)}

\* every board of the search: of the states on the stack, of the popped state
\* and of the recorded solutions
BoardsOfSearch ==
    {SearchStates[n].Board : n \in 1 .. Len(SearchStates)}
        \cup (IF Iterated THEN {SearchState.Board} ELSE {})
        \cup SolutionSet

\* C17: a placement changes only Empty cells of a copy of the board.  The child
\* board differs from its parent's exactly on the ball cells of the placed piece,
\* which were Empty in the parent and lie inside the extents; the parent state,
\* the other states of the stack and the solutions recorded before are unchanged;
\* every cell that is not Empty on the input board keeps its value on every board
\* of the search.
C17_PlacementFrame ==
    /\ [](\A B \in BoardsOfSearch : \A r, c \in BoardIdxs :
              InputBoard[r][c] # Empty => B[r][c] = InputBoard[r][c])
    /\ [][(pc = "loop" /\ SearchStates # <<>>) =>
              /\ SearchState' = SearchStates[Len(SearchStates)]
              /\ SubSeq(SearchStates', 1, Len(SearchStates) - 1)
                     = SubSeq(SearchStates, 1, Len(SearchStates) - 1)
              /\ SubSeq(OutSolutions', 1, Len(OutSolutions)) = OutSolutions
              /\ \A n \in 1 .. Len(Placements') :
                     /\ Found'
                     /\ LET Parent == SearchState'.Board
                            Child == Placements'[n].NewSearchState.Board
                            Cells == PlacedCells(Placements'[n], TargetCell')
                        IN /\ {p \in BoardIdxs \X BoardIdxs :
                                   Child[p[1]][p[2]] # Parent[p[1]][p[2]]} = Cells
                           /\ \A p \in Cells :
                                  /\ p[1] >= 0 /\ p[1] < NumRows
                                  /\ p[2] >= 0 /\ p[2] < NumCols
                                  /\ Parent[p[1]][p[2]] = Empty
                                  /\ Child[p[1]][p[2]]
                                         = PieceIndexToCellValue(Placements'[n].PieceIdx)]_vars

\* a placement of a piece of several balls on a board with an Invalid, a Blocked
\* and a pre-placed cell, with other states on the stack and solutions recorded
C17_Witness ==
    /\ Iterated
    /\ \E n \in 1 .. Len(Placements) :
           Len(SearchPieces[Placements[n].PieceIdx].Orientations[1]) >= 2
    /\ Len(SearchStates) >= 2
    /\ OutSolutions # <<>>
    /\ \E r \in 0 .. NumRows - 1, c \in 0 .. NumCols - 1 : InputBoard[r][c] = Blocked
    /\ \E r \in 0 .. NumRows - 1, c \in 0 .. NumCols - 1 : InputBoard[r][c] = Invalid
    /\ PiecesOn(InputBoard) # {}

\* placement a comes before placement b in (piece, orientation, anchor ball) order
AttemptBefore(a, b) ==
    \/ a.PieceIdx < b.PieceIdx
    \/ /\ a.PieceIdx = b.PieceIdx
       /\ \/ a.OrientationIdx < b.OrientationIdx
          \/ /\ a.OrientationIdx = b.OrientationIdx
             /\ a.PlacedBallIdx < b.PlacedBallIdx

\* C18: the search is depth-first, last in first out.  An iteration pops the back
\* of the stack, leaves the states below it as they are and pushes its children
\* on top, in increasing (piece, orientation, anchor ball) order, before the next
\* pop; so the states pushed earlier wait below the later ones and their
\* descendants: from the bottom of the stack to its top the number of remaining
\* pieces never grows.
C18_DepthFirstLifo ==
    /\ [](\A m, n \in 1 .. Len(SearchStates) :
              m < n => Cardinality(RemainingSet(SearchStates[m].RemainingPieceBitFlags))
                           >= Cardinality(RemainingSet(SearchStates[n].RemainingPieceBitFlags)))
    /\ [][(pc = "loop" /\ SearchStates # <<>>) =>
              LET Below == SubSeq(SearchStates, 1, Len(SearchStates) - 1)
              IN /\ SearchState' = SearchStates[Len(SearchStates)]
                 /\ Len(SearchStates') >= Len(Below)
                 /\ SubSeq(SearchStates', 1, Len(Below)) = Below
                 /\ SubSeq(SearchStates', Len(Below) + 1, Len(SearchStates'))
                        = ChildrenOf(Placements', FALSE)
                 /\ \A m, n \in 1 .. Len(Placements') :
                        m < n => AttemptBefore(Placements'[m], Placements'[n])]_vars

\* an iteration that pushed children of different pieces and of different
\* orientations of one piece on top of states pushed earlier
C18_Witness ==
    /\ Iterated
    /\ Len(SearchStates) > Len(Placements)
    /\ SearchStates[Len(SearchStates)] = Placements[Len(Placements)].NewSearchState
    /\ \E m, n \in 1 .. Len(Placements) : Placements[m].PieceIdx # Placements[n].PieceIdx
    /\ \E m, n \in 1 .. Len(Placements) :
           /\ Placements[m].PieceIdx = Placements[n].PieceIdx
           /\ Placements[m].OrientationIdx # Placements[n].OrientationIdx

\* C19: when the number of Empty cells of the input board is the total ball count
\* of the pieces that are not pre-placed on it, every popped state has an Empty
\* cell at or after its fill-cursor (EmptyCellIdx < InputBoardNumEmptyCells), and
\* on every state of the stack the number of Empty cells of the board is the
\* summed ball count of the remaining pieces.
C19_AssertionHolds ==
    (pc \in {"loop", "done"}
        /\ Cardinality(EmptyCellsOf(InputBoard)) = BallSum(PieceIdxs \ PiecesOn(InputBoard)))
    => /\ Iterated => EmptyCellIdx < Len(InputBoardEmptyCells)
       /\ \A n \in 1 .. Len(SearchStates) :
              Cardinality(EmptyCellsOf(SearchStates[n].Board))
                  = BallSum(RemainingSet(SearchStates[n].RemainingPieceBitFlags))

\* ball a comes before ball b in the row-major order of the grid
RowMajorBefore(a, b) ==
    a.RowIdx < b.RowIdx \/ (a.RowIdx = b.RowIdx /\ a.ColIdx < b.ColIdx)

\* C20: only the first ball of an orientation is a successful anchor.  The balls
\* of every orientation are listed in row-major order, and every placement that
\* passes the validity test (every pushed state, every recorded solution) has
\* anchor-ball index 0.
C20_OnlyFirstAnchor ==
    /\ pc # "start" =>
           \A i \in PieceIdxs : \A o \in 1 .. SearchPieces[i].NumOrientations :
               \A a, b \in 1 .. Len(SearchPieces[i].Orientations[o]) :
                   a < b => RowMajorBefore(SearchPieces[i].Orientations[o][a],
                                           SearchPieces[i].Orientations[o][b])
    /\ \A n \in 1 .. Len(Placements) : Placements[n].PlacedBallIdx = 0

\* a piece of three balls was placed, in an orientation whose first ball is not
\* in column 0 of its grid: the attempts with its other balls as anchor failed
C20_Witness ==
    /\ Iterated
    /\ \E n \in 1 .. Len(Placements) :
           LET Orientation == SearchPieces[Placements[n].PieceIdx]
                                  .Orientations[Placements[n].OrientationIdx + 1]
           IN /\ Len(Orientation) >= 3
              /\ Orientation[1].ColIdx > 0
              /\ SearchPieces[Placements[n].PieceIdx].NumBalls >= 3

\* C21: the solution sequence holds no board twice, and two different placements
\* of one iteration never make equal child boards: the number of solutions is
\* the number of distinct solved boards.
C21_NoDuplicateSolutions ==
    /\ \A m, n \in 1 .. Len(OutSolutions) : m # n => OutSolutions[m] # OutSolutions[n]
    /\ Len(OutSolutions) = Cardinality(SolutionSet)
    /\ \A m, n \in 1 .. Len(Placements) :
           m # n => Placements[m].NewSearchState.Board # Placements[n].NewSearchState.Board

\* Solve returned several solutions, two of them filling the same cells, with a
\* piece of two or more balls placed whose 8 variants were reduced to fewer
\* orientations
C21_Witness ==
    /\ pc = "done"
    /\ Len(OutSolutions) >= 2
    /\ \E i \in PieceIdxs :
           /\ SearchPieces[i].NumBalls >= 2
           /\ SearchPieces[i].NumOrientations >= 2
           /\ SearchPieces[i].NumOrientations < 2 * NUM_ROTATIONS
           /\ \E n \in 1 .. Len(OutSolutions) :
                  CellsOfPiece(OutSolutions[n], i) # CellsOfPiece(InputBoard, i)
    /\ \E m, n \in 1 .. Len(OutSolutions) :
           m # n /\ EmptyCellsOf(OutSolutions[m]) = EmptyCellsOf(OutSolutions[n])

====
